---------------------------- MODULE Spec2Model ----------------------------
(***************************************************************************)
(* A model of the data classes and analysis loops of alpha-var-code:       *)
(*   - Transition and TransitionPair (utils/transition_line.py,            *)
(*     varconlib/transition_pair/transition_pair.py),                      *)
(*   - the per-observation pair loop of scripts/analyze_fit_results.py,    *)
(*   - HARPSFile2DScience (utils/obs2d.py): construction against the FITS  *)
(*     file on disk, and findWavelength.                                   *)
(* Each part has its own specification over the shared variables; the      *)
(* variables of the other parts stay at their initial values.              *)
(***************************************************************************)
EXTENDS Integers, Sequences, FiniteSets, TLC

VARIABLES
    \* ---- Transition / TransitionPair objects
    transitions,        \* the Transition objects constructed so far
    pairs,              \* the TransitionPair objects constructed so far
    tcall,              \* the last call on these classes and its outcome
    \* ---- analyze_fit_results.py
    fits_dict,          \* the fits of the observation being analysed
    pair_pos,           \* position of the `for pair in pairs_list` loop
    separations_list,   \* the CSV row of the observation being analysed
    column_names,       \* the CSV header built alongside
    pairs_dict,         \* labels of the pairs measured in this observation
    master_star_list,   \* the rows kept for the CSV file
    script,             \* where the script is, or the exception that ended it
    astep,              \* the branch the loop body took last
    \* ---- HARPSFile2DScience
    header,             \* primary header of the FITS file (fixed per file)
    hdus,               \* extension HDUs of the FITS file on disk
    blaze_on_disk,      \* whether the blaze file is at its configured path
    obj,                \* the HARPSFile2DScience object last constructed
    ocall,              \* the last call on the class and its outcome
    \* ---- module functions (miscellaneous, comparisons)
    mcall,              \* the last call of a function and its outcome
    \* ---- conversions.air2vacESO
    air_pos,            \* index i of the loop over air_wavelengths_array
    iterations,         \* iterations of the while loop for this wavelength
    within_tolerance,   \* abs(old_wavelength - new_wavelength) <= tolerance
    vacuum_wavelengths_list,  \* how many wavelengths have been appended
    cstate,             \* where air2vacESO is, or the exception that ended it
    \* ---- check_stellar_parameter_dependence.py, the sigma_sys loop
    bin,                \* residuals and errors of the points of the bin
    sigma_sys,          \* sigma_sys, in units of sigma_sys_delta
    chi_squared_nu,     \* the reduced chi-squared last computed
    sigma_sys_list,     \* the values recorded for the bins
    wstate              \* where the loop over the bin is

varsT == <<transitions, pairs, tcall>>
varsA == <<fits_dict, pair_pos, separations_list, column_names, pairs_dict,
           master_star_list, script, astep>>
varsO == <<header, hdus, blaze_on_disk, obj, ocall>>
varsM == <<mcall>>
varsC == <<air_pos, iterations, within_tolerance, vacuum_wavelengths_list,
           cstate>>
varsW == <<bin, sigma_sys, chi_squared_nu, sigma_sys_list, wstate>>
vars == <<varsT, varsA, varsO, varsM, varsC, varsW>>

Abs(x) == IF x < 0 THEN -x ELSE x

(***************************************************************************)
(* Strings are sequences of one-character strings, so that int(), len()    *)
(* and str.capitalize() are computed on the characters.                    *)
(***************************************************************************)
Digits == <<"0", "1", "2", "3", "4", "5", "6", "7", "8", "9">>
Lowers == <<"a", "b", "c", "d", "e", "f", "g", "h", "i", "j", "k", "l", "m",
            "n", "o", "p", "q", "r", "s", "t", "u", "v", "w", "x", "y", "z">>
Uppers == <<"A", "B", "C", "D", "E", "F", "G", "H", "I", "J", "K", "L", "M",
            "N", "O", "P", "Q", "R", "S", "T", "U", "V", "W", "X", "Y", "Z">>

IsDigit(c) == \E i \in 1..Len(Digits) : Digits[i] = c
DigitVal(c) == (CHOOSE i \in 1..Len(Digits) : Digits[i] = c) - 1

ToUpper(c) ==
    IF \E i \in 1..Len(Lowers) : Lowers[i] = c
    THEN Uppers[CHOOSE i \in 1..Len(Lowers) : Lowers[i] = c] ELSE c
ToLower(c) ==
    IF \E i \in 1..Len(Uppers) : Uppers[i] = c
    THEN Lowers[CHOOSE i \in 1..Len(Uppers) : Uppers[i] = c] ELSE c

\* str.capitalize(): first character upper-cased, the rest lower-cased.
Capitalize(s) ==
    [i \in 1..Len(s) |-> IF i = 1 THEN ToUpper(s[i]) ELSE ToLower(s[i])]

\* The value of a non-empty string of decimal digits.
RECURSIVE DigitsValue(_)
DigitsValue(s) ==
    IF Len(s) = 0 THEN 0
    ELSE 10 * DigitsValue(SubSeq(s, 1, Len(s) - 1)) + DigitVal(s[Len(s)])

AllDigits(s) == Len(s) > 0 /\ \A i \in 1..Len(s) : IsDigit(s[i])

\* int(s) on a str: an optional sign followed by decimal digits; anything
\* else raises ValueError.
IntParses(s) ==
    \/ AllDigits(s)
    \/ Len(s) > 1 /\ s[1] \in {"-", "+"} /\ AllDigits(Tail(s))
IntOfStr(s) ==
    IF s[1] = "-" THEN 0 - DigitsValue(Tail(s))
    ELSE IF s[1] = "+" THEN DigitsValue(Tail(s))
    ELSE DigitsValue(s)

(***************************************************************************)
(* utils/transition_line.py: the bijective dictionaries.                   *)
(***************************************************************************)
elements == <<
    <<"H">>, <<"H","e">>, <<"L","i">>, <<"B","e">>, <<"B">>, <<"C">>,
    <<"N">>, <<"O">>, <<"F">>, <<"N","e">>, <<"N","a">>, <<"M","g">>,
    <<"A","l">>, <<"S","i">>, <<"P">>, <<"S">>, <<"C","l">>, <<"A","r">>,
    <<"K">>, <<"C","a">>, <<"S","c">>, <<"T","i">>, <<"V">>, <<"C","r">>,
    <<"M","n">>, <<"F","e">>, <<"C","o">>, <<"N","i">>, <<"C","u">>,
    <<"Z","n">>, <<"G","a">>, <<"G","e">>, <<"A","s">>, <<"S","e">>,
    <<"B","r">>, <<"K","r">>, <<"R","b">>, <<"S","r">>, <<"Y">>, <<"Z","r">>,
    <<"N","b">>, <<"M","o">>, <<"T","c">>, <<"R","u">>, <<"R","h">>,
    <<"P","d">>, <<"A","g">>, <<"C","d">>, <<"I","n">>, <<"S","n">>,
    <<"S","b">>, <<"T","e">>, <<"I">>, <<"X","e">>, <<"C","s">>, <<"B","a">>,
    <<"L","a">>, <<"C","e">>, <<"P","r">>, <<"N","d">>, <<"P","m">>,
    <<"S","m">>, <<"E","u">>, <<"G","d">>, <<"T","b">>, <<"D","y">>,
    <<"H","o">>, <<"E","r">>, <<"T","m">>, <<"Y","b">>, <<"L","u">>,
    <<"H","f">>, <<"T","a">>, <<"W">>, <<"R","e">>, <<"O","s">>, <<"I","r">>,
    <<"P","t">>, <<"A","u">>, <<"H","g">>, <<"T","l">>, <<"P","b">>,
    <<"B","i">>, <<"P","o">>, <<"A","t">>, <<"R","n">>, <<"F","r">>,
    <<"R","a">>, <<"A","c">>, <<"T","h">>, <<"P","a">>, <<"U">>
  >>

roman_numerals == <<
    <<"I">>, <<"I","I">>, <<"I","I","I">>, <<"I","V">>, <<"V">>,
    <<"V","I">>, <<"V","I","I">>, <<"V","I","I","I">>, <<"I","X">>, <<"X">>
  >>

\* bidict.inv[key]: the number a value stands for; KeyError when absent.
InInv(table, s) == \E n \in 1..Len(table) : table[n] = s
Inv(table, s) == CHOOSE n \in 1..Len(table) : table[n] = s

(***************************************************************************)
(* A length quantity is its physical length in nanometres together with    *)
(* the unit it is expressed in; its .value is len / (nm per unit).  A      *)
(* quantity in cm has value len / 10^7, so values are compared without     *)
(* forming the product.                                                    *)
(***************************************************************************)
NmPerCm == 10000000
AngstromPerNm == 10

\* wavelength.to(u.nm); the inputs drawn are whole numbers of nanometres.
ToNm(q) ==
    [len |-> CASE q.unit = "nm" -> q.val
               [] q.unit = "angstrom" -> q.val \div AngstromPerNm
               [] q.unit = "cm" -> q.val * NmPerCm,
     unit |-> "nm"]

\* a.wavelength.value < b.wavelength.value
ValueLess(a, b) ==
    CASE a.unit = b.unit -> a.len < b.len
      [] a.unit = "nm" /\ b.unit = "cm" -> a.len <= (b.len - 1) \div NmPerCm
      [] a.unit = "cm" /\ b.unit = "nm" -> a.len \div NmPerCm < b.len

\* Transition.__lt__ and Transition.__gt__
TransitionLt(t1, t2) == ValueLess(t1.wavelength, t2.wavelength)
TransitionGt(t1, t2) == ValueLess(t2.wavelength, t1.wavelength)

(***************************************************************************)
(* Bounds of the Transition / TransitionPair model.                        *)
(***************************************************************************)
MaxTransitions == 2
MaxPairs == 1

\* An attribute __init__ did not get to assign.
Unset == <<>>

Str(s) == [type |-> "str", s |-> s]
Int_(n) == [type |-> "int", n |-> n]

\* Arguments the constructor and the wavenumber setter are called with.
\* A wavelength without units is the bare number the constructor rejects.
WavelengthArgs ==
    { [val |-> 500, unit |-> "nm"], [val |-> 4000, unit |-> "angstrom"],
      [val |-> -500, unit |-> "nm"], [val |-> 500, unit |-> "none"] }
ElementArgs ==
    { Int_(26), Int_(119), Str(<<"f", "e">>), Str(<<"2", "6">>),
      Str(<<"1", "0", "0">>), Str(<<"X", "x">>) }
IonizationArgs ==
    { Int_(2), Int_(0), Str(<<"1">>), Str(<<"-", "1">>), Str(<<"I", "I">>),
      Str(<<"X", "I">>) }
\* Wavenumbers in cm^-1 (1/k cm is a whole number of nm for each); k = 0,
\* for which 1/k is no length, is left out.
WavenumberArgs ==
    { [type |-> "number", val |-> 20000, units |-> "none"],
      [type |-> "number", val |-> -20000, units |-> "none"],
      [type |-> "unyt_quantity", val |-> 25000, units |-> "cm**-1"],
      [type |-> "unyt_quantity", val |-> 2000000, units |-> "m**-1"] }

NoArgs == <<>>

(***************************************************************************)
(* Transition.__init__, one step per argument, in the order of the code.   *)
(* Each step gives [err, ...]: err = "" when the step went through.        *)
(***************************************************************************)
InitWavelength(wavelength) ==
    IF wavelength.unit = "none"
    THEN [err |-> "AttributeError", wavelength |-> [len |-> 0, unit |-> "nm"]]
    ELSE [err |-> "", wavelength |-> ToNm(wavelength)]

InitElement(element) ==
    IF element.type = "str" /\ Len(element.s) < 3
    THEN IF IntParses(element.s)
         THEN LET n == IntOfStr(element.s) IN
              IF n \in 1..Len(elements)
              THEN [err |-> "", atomicNumber |-> n, atomicSymbol |-> elements[n]]
              ELSE [err |-> "KeyError", atomicNumber |-> n, atomicSymbol |-> Unset]
         ELSE LET cap_string == Capitalize(element.s) IN
              IF InInv(elements, cap_string)
              THEN [err |-> "", atomicNumber |-> Inv(elements, cap_string),
                    atomicSymbol |-> cap_string]
              ELSE [err |-> "KeyError", atomicNumber |-> 0, atomicSymbol |-> Unset]
    ELSE IF element.type = "int"
    THEN IF ~(0 < element.n /\ element.n < 119)
         THEN [err |-> "AssertionError", atomicNumber |-> 0, atomicSymbol |-> Unset]
         ELSE IF element.n \in 1..Len(elements)
         THEN [err |-> "", atomicNumber |-> element.n,
               atomicSymbol |-> elements[element.n]]
         ELSE [err |-> "KeyError", atomicNumber |-> element.n,
               atomicSymbol |-> Unset]
    \* a longer string: only atomicNumber is assigned
    ELSE IF IntParses(element.s)
         THEN [err |-> "", atomicNumber |-> IntOfStr(element.s),
               atomicSymbol |-> Unset]
         ELSE [err |-> "TypeError", atomicNumber |-> 0, atomicSymbol |-> Unset]

InitIonizationState(ionizationState) ==
    IF ionizationState.type = "int"
    THEN [err |-> "", ionizationState |-> ionizationState.n]
    ELSE IF IntParses(ionizationState.s)
    THEN [err |-> "", ionizationState |-> IntOfStr(ionizationState.s)]
    ELSE IF InInv(roman_numerals, ionizationState.s)
    THEN [err |-> "", ionizationState |-> Inv(roman_numerals, ionizationState.s)]
    ELSE [err |-> "ValueError", ionizationState |-> 0]

TransitionInit(wavelength, element, ionizationState) ==
    LET w == InitWavelength(wavelength)
        e == InitElement(element)
        i == InitIonizationState(ionizationState)
        err == IF w.err # "" THEN w.err
               ELSE IF e.err # "" THEN e.err ELSE i.err
    IN  [err |-> err,
         self |-> [wavelength |-> w.wavelength,
                   atomicNumber |-> e.atomicNumber,
                   atomicSymbol |-> e.atomicSymbol,
                   ionizationState |-> i.ionizationState]]

\* Transition.wavenumber's setter: the wavelength it assigns, or its error.
SetterWavelength(new_wavenumber) ==
    IF new_wavenumber.type = "unyt_quantity" /\ new_wavenumber.units # "cm**-1"
    THEN [err |-> "ValueError", wavelength |-> [len |-> 0, unit |-> "cm"]]
    ELSE [err |-> "",
          wavelength |-> [len |-> NmPerCm \div new_wavenumber.val, unit |-> "cm"]]

\* TransitionPair.__init__ on two Transition objects.
PairInit(transition1, transition2) ==
    IF TransitionGt(transitions[transition1], transitions[transition2])
    THEN [err |-> "", lowerEnergyTransition |-> transition1,
          higherEnergyTransition |-> transition2]
    ELSE IF TransitionLt(transitions[transition1], transitions[transition2])
    THEN [err |-> "", lowerEnergyTransition |-> transition2,
          higherEnergyTransition |-> transition1]
    ELSE [err |-> "SameWavelengthsError", lowerEnergyTransition |-> 0,
          higherEnergyTransition |-> 0]

(***************************************************************************)
(* The calls.                                                              *)
(***************************************************************************)
NewTransition(wavelength, element, ionizationState) ==
    /\ Len(transitions) < MaxTransitions
    /\ LET r == TransitionInit(wavelength, element, ionizationState) IN
       /\ transitions' = IF r.err = "" THEN Append(transitions, r.self)
                         ELSE transitions
       /\ tcall' = [op |-> "Transition", err |-> r.err,
                    args |-> <<wavelength, element, ionizationState>>]
    /\ UNCHANGED <<pairs, varsA, varsO, varsM, varsC, varsW>>

SetWavenumber(t, new_wavenumber) ==
    /\ t \in 1..Len(transitions)
    /\ LET r == SetterWavelength(new_wavenumber) IN
       /\ transitions' = IF r.err = ""
                         THEN [transitions EXCEPT ![t].wavelength = r.wavelength]
                         ELSE transitions
       /\ tcall' = [op |-> "wavenumber", err |-> r.err,
                    args |-> <<t, new_wavenumber>>]
    /\ UNCHANGED <<pairs, varsA, varsO, varsM, varsC, varsW>>

NewTransitionPair(transition1, transition2) ==
    /\ transition1 \in 1..Len(transitions)
    /\ transition2 \in 1..Len(transitions)
    /\ Len(pairs) < MaxPairs
    /\ LET r == PairInit(transition1, transition2) IN
       /\ pairs' = IF r.err = ""
                   THEN Append(pairs,
                            [lowerEnergyTransition |-> r.lowerEnergyTransition,
                             higherEnergyTransition |-> r.higherEnergyTransition])
                   ELSE pairs
       /\ tcall' = [op |-> "TransitionPair", err |-> r.err,
                    args |-> <<transition1, transition2>>,
                    made |-> IF r.err = "" THEN Len(pairs) + 1 ELSE 0]
    /\ UNCHANGED <<transitions, varsA, varsO, varsM, varsC, varsW>>

NextT ==
    \/ \E w \in WavelengthArgs, e \in ElementArgs, i \in IonizationArgs :
           NewTransition(w, e, i)
    \/ \E t \in 1..MaxTransitions, k \in WavenumberArgs : SetWavenumber(t, k)
    \/ \E t1, t2 \in 1..MaxTransitions : NewTransitionPair(t1, t2)

(***************************************************************************)
(* scripts/analyze_fit_results.py: the loop over the observations' pickle  *)
(* files and, inside it, the loop over pairs_list that builds one CSV row. *)
(***************************************************************************)
\* Bounds: the transitions of the selection; the pickle files found.
NumFitTransitions == 3
MaxObservations == 2

\* pairs_list: every pair of two selected transitions, higher energy first.
RECURSIVE SeqOfSet(_)
SeqOfSet(S) ==
    IF S = {} THEN <<>>
    ELSE LET m == CHOOSE x \in S :
                    \A y \in S : x[1] < y[1] \/ (x[1] = y[1] /\ x[2] <= y[2])
         IN  <<m>> \o SeqOfSet(S \ {m})
pairs_list ==
    SeqOfSet({p \in (1..NumFitTransitions) \X (1..NumFitTransitions) :
                 p[1] < p[2]})

\* What the pickle of one observation holds for a transition: no fit at
\* all, a fit whose meanErrVel is NaN, or a fit with a measured offset.
FitKinds == {"absent", "nan", "measured"}

ScriptStopped == {"done", "IndexError", "AttributeError", "AssertionError"}

\* Top of `for pickle_file in pickle_files`: unpickle the fits and start the
\* row.  fits_list[0] raises IndexError when the pickle holds no fit.
StartObservation(fits) ==
    /\ script = "files"
    /\ Len(master_star_list) < MaxObservations
    /\ astep' = [branch |-> "start", pair |-> 0]
    /\ UNCHANGED <<varsT, varsO, varsM, varsC, varsW>>
    /\ IF \A t \in 1..NumFitTransitions : fits[t] = "absent"
       THEN /\ script' = "IndexError"
            /\ fits_dict' = fits
            /\ UNCHANGED <<pair_pos, separations_list, column_names,
                           pairs_dict, master_star_list>>
       ELSE /\ script' = "pairs"
            /\ fits_dict' = fits
            /\ pairs_dict' = {}
            /\ separations_list' = <<"obs_name", "dateObs">>
            /\ column_names' = <<"Observation", "Time">>
            /\ pair_pos' = 1
            /\ UNCHANGED master_star_list

InPairLoop == script = "pairs" /\ pair_pos \in 1..Len(pairs_list)
CurrentPair == pairs_list[pair_pos]
HeaderWithPair == column_names \o <<"label", "label_err">>

\* except KeyError: one of the two transitions has no fit.
PairMissing ==
    /\ InPairLoop
    /\ \E i \in 1..2 : fits_dict[CurrentPair[i]] = "absent"
    /\ column_names' = HeaderWithPair
    /\ separations_list' = separations_list \o <<"N/A", " N/A">>
    /\ pair_pos' = pair_pos + 1
    /\ astep' = [branch |-> "missing", pair |-> pair_pos]
    /\ UNCHANGED <<fits_dict, pairs_dict, master_star_list, script, varsT, varsO, varsM, varsC, varsW>>

\* The NaN branch: its first statement formats fits_pair.label, and
\* fits_pair is a list, so AttributeError leaves the loop and the script.
NaNBranch(row, pos) ==
    [script |-> "AttributeError", separations_list |-> row, pair_pos |-> pos]

PairNaN ==
    /\ InPairLoop
    /\ \A i \in 1..2 : fits_dict[CurrentPair[i]] # "absent"
    /\ \E i \in 1..2 : fits_dict[CurrentPair[i]] = "nan"
    /\ column_names' = HeaderWithPair
    /\ LET r == NaNBranch(separations_list, pair_pos) IN
       /\ script' = r.script
       /\ separations_list' = r.separations_list
       /\ pair_pos' = r.pair_pos
    /\ astep' = [branch |-> "nan", pair |-> pair_pos]
    /\ UNCHANGED <<fits_dict, pairs_dict, master_star_list, varsT, varsO, varsM, varsC, varsW>>

PairMeasured ==
    /\ InPairLoop
    /\ \A i \in 1..2 : fits_dict[CurrentPair[i]] = "measured"
    /\ column_names' = HeaderWithPair
    /\ pairs_dict' = pairs_dict \cup {CurrentPair}
    /\ separations_list' = separations_list \o <<"velocity_separation", "error">>
    /\ pair_pos' = pair_pos + 1
    /\ astep' = [branch |-> "measured", pair |-> pair_pos]
    /\ UNCHANGED <<fits_dict, master_star_list, script, varsT, varsO, varsM, varsC, varsW>>

\* After the pair loop: keep the row for the CSV file.
EndObservation ==
    /\ script = "pairs"
    /\ pair_pos = Len(pairs_list) + 1
    /\ master_star_list' = Append(master_star_list, separations_list)
    /\ script' = "files"
    /\ astep' = [branch |-> "end", pair |-> 0]
    /\ UNCHANGED <<fits_dict, pair_pos, separations_list, column_names,
                   pairs_dict, varsT, varsO, varsM, varsC, varsW>>

\* `if args.write_csv`, once the pickle files are exhausted.
WriteCsv ==
    /\ script = "files"
    /\ astep' = [branch |-> "csv", pair |-> 0]
    /\ script' = IF Len(master_star_list) = 0 THEN "IndexError"
                 ELSE IF Len(master_star_list[1]) # Len(column_names)
                 THEN "AssertionError" ELSE "done"
    /\ UNCHANGED <<fits_dict, pair_pos, separations_list, column_names,
                   pairs_dict, master_star_list, varsT, varsO, varsM, varsC, varsW>>

NextA ==
    \/ \E fits \in [1..NumFitTransitions -> FitKinds] : StartObservation(fits)
    \/ PairMissing
    \/ PairNaN
    \/ PairMeasured
    \/ EndObservation
    \/ WriteCsv

(***************************************************************************)
(* utils/obs2d.py: HARPSFile2DScience.                                     *)
(*                                                                         *)
(* An e2ds file holds 72 orders of 4096 pixels; the model keeps the shape  *)
(* of the raw data as two bounds.  Wavelengths are whole numbers of an     *)
(* arbitrary small unit.                                                   *)
(***************************************************************************)
NumOrders == 3
NumPixels == 4

Orders == 0..(NumOrders - 1)
Pixels == 0..(NumPixels - 1)
HDUNames == {"WAVE", "FLUX", "ERR"}

err_str == "File opened in 'update' mode but no arrays exist!"
blaze_err == "Blaze file path doesn't exist!"

\* Arrays: what they hold, their shape, and (for wavelengths) the values,
\* one row per order.  None is the unassigned attribute.
None == [kind |-> "None", shape |-> <<>>, data |-> <<>>]
RawShape == <<NumOrders, NumPixels>>
At(a, order, pixel) == a.data[order + 1][pixel + 1]
Last(a, order) == At(a, order, a.shape[2] - 1)

RECURSIVE Power(_, _)
Power(b, e) == IF e = 0 THEN 1 ELSE b * Power(b, e - 1)

\* The header cards 'ESO DRS CAL TH COEFF LL<n>' of the files drawn: order
\* o starts at Origin + o * step (plus a gap from order gap_at on, as between
\* the two CCDs), with the same polynomial c1, c2, c3 in every order.  As in
\* HARPS spectra, an order overlaps its neighbours at most.
Origin == 10
GapWidth == 4
Layouts ==
    { [step |-> 4, c |-> <<2, 0, 0>>], [step |-> 4, c |-> <<1, 0, 0>>],
      [step |-> 20, c |-> <<1, 1, 1>>] }
Coefficients(layout, gap_at) ==
    [n \in 0..(4 * NumOrders - 1) |->
        LET o == n \div 4
            i == n % 4
        IN  IF i = 0
            THEN Origin + o * layout.step
                 + (IF gap_at > 0 /\ o >= gap_at THEN GapWidth ELSE 0)
            ELSE layout.c[i]]

Headers ==
    { [coeff |-> Coefficients(l, g), gain_is_float |-> f, BERV |-> b] :
        l \in Layouts, g \in {0, NumOrders - 1}, f \in BOOLEAN, b \in {-1, 0} }

\* getWavelengthArray reading the card LL<order + i> for LL<4 * order + i>.
getWavelengthArrayStride(hdr, source_shape) ==
    [kind |-> "wavelength", shape |-> source_shape,
     data |-> [o \in 1..source_shape[1] |-> [p \in 1..source_shape[2] |->
                  hdr.coeff[o - 1]
                  + hdr.coeff[(o - 1) + 1] * Power(p - 1, 1)
                  + hdr.coeff[(o - 1) + 2] * Power(p - 1, 2)
                  + hdr.coeff[(o - 1) + 3] * Power(p - 1, 3)]]]

\* getWavelengthArray: the polynomial of each order evaluated at each pixel.
getWavelengthArray(hdr, source_shape) ==
    [kind |-> "wavelength", shape |-> source_shape,
     data |-> [o \in 1..source_shape[1] |-> [p \in 1..source_shape[2] |->
                  hdr.coeff[4 * (o - 1)]
                  + hdr.coeff[4 * (o - 1) + 1] * Power(p - 1, 1)
                  + hdr.coeff[4 * (o - 1) + 2] * Power(p - 1, 2)
                  + hdr.coeff[4 * (o - 1) + 3] * Power(p - 1, 3)]]]

\* getVacuumArray (air2vacESO): the refraction index of air exceeds 1, so a
\* vacuum wavelength is longer than the air one; one unit at this resolution.
AirToVacuum == 1
getVacuumArray(air) ==
    [kind |-> "vacuum", shape |-> air.shape,
     data |-> [o \in 1..air.shape[1] |-> [p \in 1..air.shape[2] |->
                  air.data[o][p] + AirToVacuum]]]

\* getBarycentricArray (shift_wavelength by the BERV of the header).
getBarycentricArray(vacuum, BERV) ==
    [kind |-> "barycentric", shape |-> vacuum.shape,
     data |-> [o \in 1..vacuum.shape[1] |-> [p \in 1..vacuum.shape[2] |->
                  vacuum.data[o][p] + BERV]]]

(***************************************************************************)
(* __init__ runs as a chain of steps over a context: the HDUs of the file  *)
(* (flushed to disk by every write), the object under construction, the    *)
(* exception raised if any, and a log of what the call did.                *)
(***************************************************************************)
NewSelf ==
    [_wavelengthArray |-> None, _vacuumArray |-> None,
     _barycentricArray |-> None, _rawFluxArray |-> [kind |-> "raw",
     shape |-> RawShape, data |-> <<>>], _gainCorrectedFluxArray |-> None,
     _photonFluxArray |-> None, _errorArray |-> None, _blazeFile |-> FALSE]

NoObject == [NewSelf EXCEPT !._rawFluxArray = None]

Raise(ctx, e) == [ctx EXCEPT !.err = e]

\* getBlazeFile
getBlazeFile(ctx) ==
    IF ctx.err # "" THEN ctx
    ELSE IF ~blaze_on_disk
    THEN [ctx EXCEPT !.err = blaze_err, !.blaze_lookups = @ + 1]
    ELSE [ctx EXCEPT !.self._blazeFile = TRUE, !.blaze_lookups = @ + 1]

\* NeedsBlazeAtOpen without its condition: the blaze file looked for on
\* every open.
NeedsBlazeAlways(ctx, update) == TRUE

\* lines 127-131: the blaze file is looked for on a first open or an update.
NeedsBlazeAtOpen(ctx, update) ==
    (\A h \in HDUNames : ctx.hdus[h] = None) \/ update
OpenBlaze(ctx, update) ==
    IF NeedsBlazeAtOpen(ctx, update) THEN getBlazeFile(ctx) ELSE ctx

\* getGainCorrectedFluxArray, where the attribute is still None.
EnsureGainCorrected(ctx) ==
    IF ctx.err # "" \/ ctx.self._gainCorrectedFluxArray # None THEN ctx
    ELSE IF ~header.gain_is_float THEN Raise(ctx, "AssertionError")
    ELSE [ctx EXCEPT !.self._gainCorrectedFluxArray =
              [kind |-> "raw*gain", shape |-> ctx.self._rawFluxArray.shape,
               data |-> <<>>]]

EnsureBlaze(ctx) ==
    IF ctx.err # "" \/ ctx.self._blazeFile THEN ctx ELSE getBlazeFile(ctx)

\* hdulist[name] = HDU, or hdulist.append(HDU), then hdulist.flush()
PutHDU(ctx, name, array) ==
    [ctx EXCEPT !.hdus[name] = array, !.wrote = @ \cup {name}]

writeWavelengthHDU(ctx) ==
    IF ctx.err # "" THEN ctx
    ELSE LET a == getWavelengthArray(header, ctx.self._rawFluxArray.shape)
             c == [ctx EXCEPT !.self._wavelengthArray = a,
                              !.computed = @ \cup {"WAVE"}]
         IN  PutHDU(c, "WAVE", a)

\* getPhotonFluxArray divides the gain-corrected array in place, so that
\* attribute holds the blaze-corrected flux afterwards.
writePhotonFluxHDU(ctx) ==
    LET g == EnsureBlaze(EnsureGainCorrected(ctx)) IN
    IF g.err # "" THEN g
    ELSE LET a == [kind |-> g.self._gainCorrectedFluxArray.kind \o "/blaze",
                   shape |-> g.self._gainCorrectedFluxArray.shape,
                   data |-> <<>>]
             c == [g EXCEPT !.self._gainCorrectedFluxArray = a,
                            !.self._photonFluxArray = a,
                            !.computed = @ \cup {"FLUX"}]
         IN  PutHDU(c, "FLUX", a)

writeErrorHDU(ctx) ==
    LET g == EnsureGainCorrected(ctx) IN
    IF g.err # "" THEN g
    ELSE LET b == EnsureBlaze(g) IN
         IF b.err # "" THEN b
         ELSE LET a == [kind |-> "sqrt(" \o b.self._gainCorrectedFluxArray.kind
                                 \o "+dark^2)/blaze",
                        shape |-> b.self._gainCorrectedFluxArray.shape,
                        data |-> <<>>]
                  c == [b EXCEPT !.self._errorArray = a,
                                 !.computed = @ \cup {"ERR"}]
              IN  PutHDU(c, "ERR", a)

Write(ctx, name) ==
    CASE name = "WAVE" -> writeWavelengthHDU(ctx)
      [] name = "FLUX" -> writePhotonFluxHDU(ctx)
      [] name = "ERR" -> writeErrorHDU(ctx)

Attribute(name) ==
    CASE name = "WAVE" -> "_wavelengthArray"
      [] name = "FLUX" -> "_photonFluxArray"
      [] name = "ERR" -> "_errorArray"

\* ReadHDU that finds the HDU and leaves the attribute unassigned.
ReadHDUNoAssign(ctx, name) == ctx

\* try: self.<array> = hdulist[name].data
ReadHDU(ctx, name) ==
    [ctx EXCEPT !.self[Attribute(name)] = ctx.hdus[name]]

\* ArrayBlock without `if update: raise RuntimeError(err_str)`: a missing
\* HDU is created in update mode too.
ArrayBlockNoRaise(ctx, name, update) ==
    IF ctx.err # "" THEN ctx
    ELSE LET got == IF ctx.hdus[name] # None THEN ReadHDU(ctx, name)
                    ELSE Write(ctx, name)
         IN  IF got.err = "" /\ update THEN Write(got, name) ELSE got

\* One of the three blocks of lines 133-172: read the HDU, or create it when
\* it is missing and the file is not being updated; then overwrite it when
\* the file is being updated.
ArrayBlock(ctx, name, update) ==
    IF ctx.err # "" THEN ctx
    ELSE LET got == IF ctx.hdus[name] # None THEN ReadHDU(ctx, name)
                    ELSE IF update THEN Raise(ctx, err_str)
                    ELSE Write(ctx, name)
         IN  IF got.err = "" /\ update THEN Write(got, name) ELSE got

Construct(update) ==
    LET start == [hdus |-> hdus, self |-> NewSelf, err |-> "", wrote |-> {},
                  computed |-> {}, blaze_lookups |-> 0]
    IN  ArrayBlock(ArrayBlock(ArrayBlock(OpenBlaze(start, update),
                       "WAVE", update), "FLUX", update), "ERR", update)

Present(file) == {h \in HDUNames : file[h] # None}

\* HARPSFile2DScience(FITSfile, update)
Open(update) ==
    LET r == Construct(update) IN
    /\ hdus' = r.hdus
    /\ obj' = IF r.err = "" THEN r.self ELSE NoObject
    /\ ocall' = [op |-> "__init__", update |-> update, err |-> r.err,
                 before |-> Present(hdus), wrote |-> r.wrote,
                 computed |-> r.computed, blaze_lookups |-> r.blaze_lookups]
    /\ UNCHANGED <<header, blaze_on_disk, varsT, varsA, varsM, varsC, varsW>>

\* The blaze files come and go in the directory the configuration names.
BlazeFileChanges ==
    /\ blaze_on_disk' = ~blaze_on_disk
    /\ ocall' = [op |-> "blaze"]
    /\ UNCHANGED <<header, hdus, obj, varsT, varsA, varsM, varsC, varsW>>

(***************************************************************************)
(* varconlib/miscellaneous: wavelength2index on one row of an array.       *)
(* Gives [err, index], the index counted from 0 as in the code.            *)
(***************************************************************************)
\* wavelength2index with `>=` for `>` in the comparison of the two distances.
wavelength2indexTieLower(wavelength, wavelength_array) ==
    LET n == Len(wavelength_array) IN
    IF ~(wavelength_array[1] < wavelength /\ wavelength < wavelength_array[n])
    THEN [err |-> "RuntimeError", index |-> 0]
    ELSE LET i == CHOOSE k \in 1..n :
                     /\ wavelength_array[k] >= wavelength
                     /\ \A j \in 1..(k - 1) : wavelength_array[j] < wavelength
         IN  IF Abs(wavelength_array[i] - wavelength)
                  >= Abs(wavelength - wavelength_array[i - 1])
             THEN [err |-> "", index |-> (i - 1) - 1]
             ELSE [err |-> "", index |-> i - 1]

\* wavelength2index with the lower limit taken from wavelength_array[1].
wavelength2indexLimitOffByOne(wavelength, wavelength_array) ==
    LET n == Len(wavelength_array) IN
    IF ~(wavelength_array[2] < wavelength /\ wavelength < wavelength_array[n])
    THEN [err |-> "RuntimeError", index |-> 0]
    ELSE LET i == CHOOSE k \in 1..n :
                     /\ wavelength_array[k] >= wavelength
                     /\ \A j \in 1..(k - 1) : wavelength_array[j] < wavelength
         IN  IF Abs(wavelength_array[i] - wavelength)
                  > Abs(wavelength - wavelength_array[i - 1])
             THEN [err |-> "", index |-> (i - 1) - 1]
             ELSE [err |-> "", index |-> i - 1]

wavelength2index(wavelength, wavelength_array) ==
    LET n == Len(wavelength_array) IN
    IF ~(wavelength_array[1] < wavelength /\ wavelength < wavelength_array[n])
    THEN [err |-> "RuntimeError", index |-> 0]
    ELSE LET i == CHOOSE k \in 1..n :
                     /\ wavelength_array[k] >= wavelength
                     /\ \A j \in 1..(k - 1) : wavelength_array[j] < wavelength
         IN  IF Abs(wavelength_array[i] - wavelength)
                  > Abs(wavelength - wavelength_array[i - 1])
             THEN [err |-> "", index |-> (i - 1) - 1]
             ELSE [err |-> "", index |-> i - 1]

(***************************************************************************)
(* HARPSFile2DScience.findWavelength                                       *)
(***************************************************************************)
\* The barycentric array, created on first use (the vacuum array with it).
WithBarycentric(self) ==
    IF self._barycentricArray # None THEN self
    ELSE LET v == IF self._vacuumArray = None
                  THEN getVacuumArray(self._wavelengthArray)
                  ELSE self._vacuumArray
         IN  [self EXCEPT !._vacuumArray = v,
                          !._barycentricArray = getBarycentricArray(v, header.BERV)]

\* The loop over the orders: those whose first and last wavelengths in
\* self._wavelengthArray bracket the wavelength, in increasing order.
RECURSIVE OrdersFrom(_, _, _)
OrdersFrom(self, wavelength, order) ==
    IF order > NumOrders - 1 THEN <<>>
    ELSE (IF At(self._wavelengthArray, order, 0) <= wavelength
             /\ wavelength <= Last(self._wavelengthArray, order)
          THEN <<order>> ELSE <<>>)
         \o OrdersFrom(self, wavelength, order + 1)
orders_wavelength_found_in(self, wavelength) == OrdersFrom(self, wavelength, 0)

WithinArrayLimits(self, wavelength) ==
    /\ At(self._barycentricArray, 0, 0) <= wavelength
    /\ wavelength <= Last(self._barycentricArray, NumOrders - 1)

\* What the call gives: err = "" and the value returned, or the exception.
\* With closest_only and any number of orders but one, the test
\* `len(orders_wavelength_found_in == 2)` takes len() of a bool: TypeError.
findWavelength(self, wavelength, closest_only) ==
    LET found == orders_wavelength_found_in(self, wavelength) IN
    IF ~WithinArrayLimits(self, wavelength)
    THEN [err |-> "AssertionError: not within array limits", value |-> <<>>]
    ELSE IF ~(Len(found) < 3)
    THEN [err |-> "AssertionError: more than two orders", value |-> <<>>]
    ELSE IF closest_only
    THEN IF Len(found) = 1 THEN [err |-> "", value |-> <<found[1]>>]
         ELSE [err |-> "TypeError", value |-> <<>>]
    ELSE [err |-> "", value |-> found]

\* Wavelengths asked for: from below the first order to above the last.
Wavelengths ==
    (Origin - 2)..(Origin + (NumOrders - 1) * 20 + GapWidth + 2)

FindWavelength(wavelength, closest_only) ==
    /\ obj # NoObject
    /\ LET self == WithBarycentric(obj)
           r == findWavelength(self, wavelength, closest_only)
       IN  /\ obj' = self
           /\ ocall' = [op |-> "findWavelength", wavelength |-> wavelength,
                        closest_only |-> closest_only, err |-> r.err,
                        value |-> r.value]
    /\ UNCHANGED <<header, hdus, blaze_on_disk, varsT, varsA, varsM, varsC, varsW>>

NextO ==
    \/ \E update \in BOOLEAN : Open(update)
    \/ \E w \in Wavelengths, c \in BOOLEAN : FindWavelength(w, c)
    \/ BlazeFileChanges

(***************************************************************************)
(* Initial states and specifications.  Each specification runs one part;   *)
(* the other parts' variables keep their initial values.                   *)
(***************************************************************************)
\* No object yet; the script before its first pickle file; a file as the
\* HARPS pipeline delivers it: the primary HDU alone.
InitTransition ==
    /\ transitions = <<>>
    /\ pairs = <<>>
    /\ tcall = [op |-> "none", err |-> "", args |-> NoArgs]
    /\ fits_dict = [t \in 1..NumFitTransitions |-> "absent"]
    /\ pair_pos = 0
    /\ separations_list = <<>>
    /\ column_names = <<>>
    /\ pairs_dict = {}
    /\ master_star_list = <<>>
    /\ script = "files"
    /\ astep = [branch |-> "none", pair |-> 0]
    /\ header = CHOOSE h \in Headers : TRUE
    /\ hdus = [h \in HDUNames |-> None]
    /\ blaze_on_disk = TRUE
    /\ obj = NoObject
    /\ ocall = [op |-> "none"]
    /\ mcall = [op |-> "none"]
    /\ air_pos = 0
    /\ iterations = 0
    /\ within_tolerance = FALSE
    /\ vacuum_wavelengths_list = 0
    /\ cstate = "for"
    /\ bin = [residuals |-> <<>>, errs |-> <<>>]
    /\ sigma_sys = 0
    /\ chi_squared_nu = [num |-> 0, den |-> 1]
    /\ sigma_sys_list = <<>>
    /\ wstate = "bin"

InitAnalyze ==
    /\ transitions = <<>>
    /\ pairs = <<>>
    /\ tcall = [op |-> "none", err |-> "", args |-> NoArgs]
    /\ fits_dict = [t \in 1..NumFitTransitions |-> "absent"]
    /\ pair_pos = 0
    /\ separations_list = <<>>
    /\ column_names = <<>>
    /\ pairs_dict = {}
    /\ master_star_list = <<>>
    /\ script = "files"
    /\ astep = [branch |-> "none", pair |-> 0]
    /\ header = CHOOSE h \in Headers : TRUE
    /\ hdus = [h \in HDUNames |-> None]
    /\ blaze_on_disk = TRUE
    /\ obj = NoObject
    /\ ocall = [op |-> "none"]
    /\ mcall = [op |-> "none"]
    /\ air_pos = 0
    /\ iterations = 0
    /\ within_tolerance = FALSE
    /\ vacuum_wavelengths_list = 0
    /\ cstate = "for"
    /\ bin = [residuals |-> <<>>, errs |-> <<>>]
    /\ sigma_sys = 0
    /\ chi_squared_nu = [num |-> 0, den |-> 1]
    /\ sigma_sys_list = <<>>
    /\ wstate = "bin"

\* The file's header is one of Headers, and the blaze file is at its path
\* or not.
InitObs2d ==
    /\ transitions = <<>>
    /\ pairs = <<>>
    /\ tcall = [op |-> "none", err |-> "", args |-> NoArgs]
    /\ fits_dict = [t \in 1..NumFitTransitions |-> "absent"]
    /\ pair_pos = 0
    /\ separations_list = <<>>
    /\ column_names = <<>>
    /\ pairs_dict = {}
    /\ master_star_list = <<>>
    /\ script = "files"
    /\ astep = [branch |-> "none", pair |-> 0]
    /\ header \in Headers
    /\ hdus = [h \in HDUNames |-> None]
    /\ blaze_on_disk \in BOOLEAN
    /\ obj = NoObject
    /\ ocall = [op |-> "none"]
    /\ mcall = [op |-> "none"]
    /\ air_pos = 0
    /\ iterations = 0
    /\ within_tolerance = FALSE
    /\ vacuum_wavelengths_list = 0
    /\ cstate = "for"
    /\ bin = [residuals |-> <<>>, errs |-> <<>>]
    /\ sigma_sys = 0
    /\ chi_squared_nu = [num |-> 0, den |-> 1]
    /\ sigma_sys_list = <<>>
    /\ wstate = "bin"

\* Transition and TransitionPair objects.
SpecTransition == InitTransition /\ [][NextT]_vars
\* analyze_fit_results.py.
SpecAnalyze == InitAnalyze /\ [][NextA]_vars
\* One e2ds file and the HARPSFile2DScience objects opened on it.
SpecObs2d == InitObs2d /\ [][NextO]_vars

(***************************************************************************)
(* varconlib/miscellaneous: date2index and wavelength2index as functions   *)
(* of their arguments.                                                     *)
(*                                                                         *)
(* A datetime is a number of ticks (TicksPerDay to the day); a date is a   *)
(* number of days.  given_date is [type, t]: a datetime.datetime with its  *)
(* tick, a datetime.date with its day, or an object of another type.       *)
(***************************************************************************)
MaxDates == 3
MaxTick == 5
TicksPerDay == 2

Ticks == 0..MaxTick
Days == 0..(MaxTick \div TicksPerDay)

\* The sequences over S of length n in non-decreasing order.
SortedSeqs(S, n) ==
    {s \in [1..n -> S] : \A i \in 1..(n - 1) : s[i] <= s[i + 1]}

\* Timestamps in chronological order.
DateLists == UNION {SortedSeqs(Ticks, n) : n \in 0..MaxDates}
GivenDates ==
    {[type |-> "datetime", t |-> t] : t \in Ticks}
        \cup {[type |-> "date", t |-> d] : d \in Days}
        \cup {[type |-> "str", t |-> 0]}

\* dt.datetime(year, month, day, hour=0, minute=0, second=0)
Midnight(day) == day * TicksPerDay

\* The loop `for i in range(0, len(date_list)): if date_to_find <
\* date_list[i]: return i`, from index i of the code (position i + 1 here).
RECURSIVE DateLoop(_, _, _)
DateLoop(date_to_find, date_list, i) ==
    IF i >= Len(date_list)
    THEN [err |-> "", returns |-> "None", index |-> 0]
    ELSE IF date_to_find < date_list[i + 1]
         THEN [err |-> "", returns |-> "int", index |-> i]
         ELSE DateLoop(date_to_find, date_list, i + 1)

\* date2index: [err, returns, index]; returns is "int" (then index is the
\* value) or "None".
date2index(given_date, date_list) ==
    IF given_date.type \notin {"datetime", "date"}
    THEN [err |-> "RuntimeError", returns |-> "", index |-> 0]
    ELSE LET date_to_find == IF given_date.type = "datetime"
                             THEN given_date.t
                             ELSE Midnight(given_date.t)
         IN  IF date_list = <<>>
             THEN [err |-> "IndexError", returns |-> "", index |-> 0]
             ELSE IF date_to_find <= date_list[1]
             THEN [err |-> "", returns |-> "int", index |-> 0]
             ELSE IF date_to_find >= date_list[Len(date_list)]
             THEN [err |-> "", returns |-> "None", index |-> 0]
             ELSE DateLoop(date_to_find, date_list, 0)

\* The functions keep no state: a behaviour is one call.
Date2Index(given_date, date_list) ==
    /\ mcall.op = "none"
    /\ mcall' = [op |-> "date2index",
                 given_date |-> given_date,
                 date_list |-> date_list,
                 result |-> date2index(given_date, date_list)]
    /\ UNCHANGED <<varsT, varsA, varsO, varsC, varsW>>

(***************************************************************************)
(* wavelength2index on arrays in increasing order (reverse=False), with a  *)
(* unyt_quantity for the wavelength as the function asserts.               *)
(***************************************************************************)
MaxArrayLen == 4
MaxWavelength == 5

WavelengthArrays ==
    UNION {SortedSeqs(0..MaxWavelength, n) : n \in 2..MaxArrayLen}

Wavelength2Index(wavelength, wavelength_array) ==
    /\ mcall.op = "none"
    /\ mcall' = [op |-> "wavelength2index",
                 wavelength |-> wavelength,
                 wavelength_array |-> wavelength_array,
                 result |-> wavelength2index(wavelength, wavelength_array)]
    /\ UNCHANGED <<varsT, varsA, varsO, varsC, varsW>>

NextM ==
    \/ \E d \in GivenDates, l \in DateLists : Date2Index(d, l)
    \/ \E w \in 0..MaxWavelength, a \in WavelengthArrays :
           Wavelength2Index(w, a)

InitMisc ==
    /\ transitions = <<>>
    /\ pairs = <<>>
    /\ tcall = [op |-> "none", err |-> "", args |-> NoArgs]
    /\ fits_dict = [t \in 1..NumFitTransitions |-> "absent"]
    /\ pair_pos = 0
    /\ separations_list = <<>>
    /\ column_names = <<>>
    /\ pairs_dict = {}
    /\ master_star_list = <<>>
    /\ script = "files"
    /\ astep = [branch |-> "none", pair |-> 0]
    /\ header = CHOOSE h \in Headers : TRUE
    /\ hdus = [h \in HDUNames |-> None]
    /\ blaze_on_disk = TRUE
    /\ obj = NoObject
    /\ ocall = [op |-> "none"]
    /\ mcall = [op |-> "none"]
    /\ air_pos = 0
    /\ iterations = 0
    /\ within_tolerance = FALSE
    /\ vacuum_wavelengths_list = 0
    /\ cstate = "for"
    /\ bin = [residuals |-> <<>>, errs |-> <<>>]
    /\ sigma_sys = 0
    /\ chi_squared_nu = [num |-> 0, den |-> 1]
    /\ sigma_sys_list = <<>>
    /\ wstate = "bin"

\* The functions of varconlib/miscellaneous, called on any arguments.
SpecMisc == InitMisc /\ [][NextM]_vars

(***************************************************************************)
(* TransitionPair.__eq__, __gt__ and __lt__.                               *)
(*                                                                         *)
(* Transition defines no __eq__, so `==` between two Transition objects is *)
(* Python's default: the same object.  An object is its position in        *)
(* `transitions`; a pair holds the positions of its two transitions.       *)
(***************************************************************************)
MaxComparedTransitions == 3
MaxComparedPairs == 2

TransitionEq(a, b) == a = b

\* TransitionPair.__eq__
PairEq(self, other) ==
    /\ TransitionEq(self.lowerEnergyTransition, other.lowerEnergyTransition)
    /\ TransitionEq(self.higherEnergyTransition, other.higherEnergyTransition)

\* TransitionPair.__gt__
PairGt(self, other) ==
    IF PairEq(self, other) THEN FALSE
    ELSE IF TransitionGt(transitions[self.higherEnergyTransition],
                         transitions[other.higherEnergyTransition])
    THEN TRUE
    ELSE IF TransitionEq(self.higherEnergyTransition,
                         other.higherEnergyTransition)
    THEN TransitionGt(transitions[self.lowerEnergyTransition],
                      transitions[other.lowerEnergyTransition])
    ELSE FALSE

\* TransitionPair.__lt__
PairLt(self, other) ==
    IF PairEq(self, other) THEN FALSE
    ELSE IF TransitionLt(transitions[self.higherEnergyTransition],
                         transitions[other.higherEnergyTransition])
    THEN TRUE
    ELSE IF TransitionEq(self.higherEnergyTransition,
                         other.higherEnergyTransition)
    THEN TransitionLt(transitions[self.lowerEnergyTransition],
                      transitions[other.lowerEnergyTransition])
    ELSE FALSE

\* Wavelengths of the transitions compared, in nm.
ComparedWavelengths == {[val |-> 400, unit |-> "nm"],
                        [val |-> 500, unit |-> "nm"],
                        [val |-> 600, unit |-> "nm"]}

\* Transition(wavelength, 26, 2) for the comparisons.
ComparedTransition(wavelength) ==
    /\ Len(transitions) < MaxComparedTransitions
    /\ LET r == TransitionInit(wavelength, Int_(26), Int_(2)) IN
       /\ r.err = ""
       /\ transitions' = Append(transitions, r.self)
       /\ tcall' = [op |-> "Transition", err |-> r.err,
                    args |-> <<wavelength, Int_(26), Int_(2)>>]
    /\ UNCHANGED <<pairs, mcall, varsA, varsO, varsC, varsW>>

\* TransitionPair(transition1, transition2) for the comparisons.
ComparedPair(transition1, transition2) ==
    /\ transition1 \in 1..Len(transitions)
    /\ transition2 \in 1..Len(transitions)
    /\ Len(pairs) < MaxComparedPairs
    /\ LET r == PairInit(transition1, transition2) IN
       /\ pairs' = IF r.err = ""
                   THEN Append(pairs,
                            [lowerEnergyTransition |-> r.lowerEnergyTransition,
                             higherEnergyTransition |-> r.higherEnergyTransition])
                   ELSE pairs
       /\ tcall' = [op |-> "TransitionPair", err |-> r.err,
                    args |-> <<transition1, transition2>>,
                    made |-> IF r.err = "" THEN Len(pairs) + 1 ELSE 0]
    /\ UNCHANGED <<transitions, mcall, varsA, varsO, varsC, varsW>>

\* p == q, p > q and p < q for two of the pairs.
ComparePairs(p, q) ==
    /\ p \in 1..Len(pairs)
    /\ q \in 1..Len(pairs)
    /\ mcall' = [op |-> "compare", self |-> p, other |-> q,
                 eq |-> PairEq(pairs[p], pairs[q]),
                 gt |-> PairGt(pairs[p], pairs[q]),
                 lt |-> PairLt(pairs[p], pairs[q])]
    /\ UNCHANGED <<varsT, varsA, varsO, varsC, varsW>>

NextP ==
    \/ \E w \in ComparedWavelengths : ComparedTransition(w)
    \/ \E t1, t2 \in 1..MaxComparedTransitions : ComparedPair(t1, t2)
    \/ \E p, q \in 1..MaxComparedPairs : ComparePairs(p, q)

InitCompare ==
    /\ transitions = <<>>
    /\ pairs = <<>>
    /\ tcall = [op |-> "none", err |-> "", args |-> NoArgs]
    /\ fits_dict = [t \in 1..NumFitTransitions |-> "absent"]
    /\ pair_pos = 0
    /\ separations_list = <<>>
    /\ column_names = <<>>
    /\ pairs_dict = {}
    /\ master_star_list = <<>>
    /\ script = "files"
    /\ astep = [branch |-> "none", pair |-> 0]
    /\ header = CHOOSE h \in Headers : TRUE
    /\ hdus = [h \in HDUNames |-> None]
    /\ blaze_on_disk = TRUE
    /\ obj = NoObject
    /\ ocall = [op |-> "none"]
    /\ mcall = [op |-> "none"]
    /\ air_pos = 0
    /\ iterations = 0
    /\ within_tolerance = FALSE
    /\ vacuum_wavelengths_list = 0
    /\ cstate = "for"
    /\ bin = [residuals |-> <<>>, errs |-> <<>>]
    /\ sigma_sys = 0
    /\ chi_squared_nu = [num |-> 0, den |-> 1]
    /\ sigma_sys_list = <<>>
    /\ wstate = "bin"

\* TransitionPair objects and their comparisons.
SpecCompare == InitCompare /\ [][NextP]_vars

(***************************************************************************)
(* varconlib/conversions: the loops of air2vacESO.                         *)
(*                                                                         *)
(* The wavelengths are floating-point numbers; of each iterate the model   *)
(* keeps whether abs(old_wavelength - new_wavelength) is within the        *)
(* tolerance, and lets the arithmetic decide it either way.                *)
(***************************************************************************)
MaxAirWavelengths == 2
num_iter == 100

\* if iterations > num_iter
ExceedsOffByOne(n) == n > num_iter + 1
Exceeds(n) == n > num_iter

\* air2vacESO is called on an array of any length up to the bound.
CallAir2Vac(n) ==
    /\ cstate = "call"
    /\ cstate' = "for"
    /\ air_pos' = 0
    /\ vacuum_wavelengths_list' = 0
    /\ iterations' = 0
    /\ within_tolerance' = FALSE
    /\ mcall' = [op |-> "air2vacESO", len |-> n]
    /\ UNCHANGED <<varsT, varsA, varsO, varsW>>

\* for i in trange(0, len(air_wavelengths_array)): the next wavelength, with
\* old_wavelength = 0. and iterations = 0.
ForNext ==
    /\ cstate = "for"
    /\ air_pos < mcall.len
    /\ iterations' = 0
    /\ \E b \in BOOLEAN : within_tolerance' = b
    /\ cstate' = "while"
    /\ UNCHANGED <<air_pos, vacuum_wavelengths_list, mcall, varsT, varsA, varsO,
                   varsW>>

\* One pass of the while loop's body.
WhileBody ==
    /\ cstate = "while"
    /\ ~within_tolerance
    /\ iterations' = iterations + 1
    /\ IF Exceeds(iterations + 1)
       THEN /\ cstate' = "RuntimeError"
            /\ UNCHANGED within_tolerance
       ELSE /\ \E b \in BOOLEAN : within_tolerance' = b
            /\ UNCHANGED cstate
    /\ UNCHANGED <<air_pos, vacuum_wavelengths_list, mcall, varsT, varsA, varsO,
                   varsW>>

\* The while condition fails: vacuum_wavelengths_list.append(new_wavelength).
WhileExit ==
    /\ cstate = "while"
    /\ within_tolerance
    /\ vacuum_wavelengths_list' = vacuum_wavelengths_list + 1
    /\ air_pos' = air_pos + 1
    /\ cstate' = "for"
    /\ UNCHANGED <<iterations, within_tolerance, mcall, varsT, varsA, varsO,
                   varsW>>

\* The for loop is exhausted: the vacuum array is returned.
Return ==
    /\ cstate = "for"
    /\ air_pos = mcall.len
    /\ cstate' = "done"
    /\ UNCHANGED <<air_pos, iterations, within_tolerance,
                   vacuum_wavelengths_list, mcall, varsT, varsA, varsO,
                   varsW>>

NextC ==
    \/ \E n \in 0..MaxAirWavelengths : CallAir2Vac(n)
    \/ ForNext
    \/ WhileBody
    \/ WhileExit
    \/ Return

InitConvert ==
    /\ transitions = <<>>
    /\ pairs = <<>>
    /\ tcall = [op |-> "none", err |-> "", args |-> NoArgs]
    /\ fits_dict = [t \in 1..NumFitTransitions |-> "absent"]
    /\ pair_pos = 0
    /\ separations_list = <<>>
    /\ column_names = <<>>
    /\ pairs_dict = {}
    /\ master_star_list = <<>>
    /\ script = "files"
    /\ astep = [branch |-> "none", pair |-> 0]
    /\ header = CHOOSE h \in Headers : TRUE
    /\ hdus = [h \in HDUNames |-> None]
    /\ blaze_on_disk = TRUE
    /\ obj = NoObject
    /\ ocall = [op |-> "none"]
    /\ mcall = [op |-> "none"]
    /\ air_pos = 0
    /\ iterations = 0
    /\ within_tolerance = FALSE
    /\ vacuum_wavelengths_list = 0
    /\ cstate = "call"
    /\ bin = [residuals |-> <<>>, errs |-> <<>>]
    /\ sigma_sys = 0
    /\ chi_squared_nu = [num |-> 0, den |-> 1]
    /\ sigma_sys_list = <<>>
    /\ wstate = "bin"

\* One call of air2vacESO; the interpreter keeps running it until it
\* returns or raises.
SpecConvert == InitConvert /\ [][NextC]_vars /\ WF_vars(NextC)

(***************************************************************************)
(* scripts/check_stellar_parameter_dependence.py: the walk that finds the  *)
(* systematic error sigma_sys of one bin.                                  *)
(*                                                                         *)
(* Residuals, errors and sigma_sys are whole multiples of sigma_sys_delta  *)
(* (0.01), and the arithmetic is exact: a quotient is kept as [num, den]   *)
(* with den >= 0, infinity being [1, 0].                                   *)
(***************************************************************************)
MaxBinSize == 7
MaxResidual == 2
MaxErr == 2
MaxSigmaSys == 8
min_bin_size == 7
num_params == 1
\* sigma_sys_delta = 0.01, the unit of the model's residuals and errors
sigma_sys_delta == 1

\* sum(s)
SumSeq(s) ==
    LET partial[k \in 0..Len(s)] ==
            IF k = 0 THEN 0 ELSE partial[k - 1] + s[k]
    IN  partial[Len(s)]

RECURSIVE ProductOf(_)
ProductOf(S) ==
    IF S = {} THEN 1
    ELSE LET x == CHOOSE y \in S : TRUE IN x * ProductOf(S \ {x})

\* np.square
Square(x) == x * x

\* np.inf, and the comparison `chi_squared_nu > 1.0`
Infinity == [num |-> 1, den |-> 0]
GreaterThanOne(q) == q.num > q.den

\* variances + variance_sys
VariancesIter(errs_copy, s) ==
    [i \in 1..Len(errs_copy) |-> Square(errs_copy[i]) + Square(s)]

\* A common multiple of the variances, and weights = 1 / variances_iter as
\* multiples of its inverse.
CommonMultiple(variances_iter) ==
    ProductOf({variances_iter[i] : i \in 1..Len(variances_iter)})
Weights(variances_iter) ==
    [i \in 1..Len(variances_iter) |->
        CommonMultiple(variances_iter) \div variances_iter[i]]

\* np.average(residuals_copy, weights=weights, returned=True): the weighted
\* mean as [num, den]; den is sum_weights.
Average(residuals_copy, weights) ==
    [num |-> SumSeq([i \in 1..Len(residuals_copy) |->
                        weights[i] * residuals_copy[i]]),
     den |-> SumSeq(weights)]

\* fit.calc_chi_squared_nu(residuals, errors, n_params): the sum of
\* (residuals / errors) ** 2 over the number of points less n_params.  The
\* residuals are numerators[i] / denominator, the errors the square roots of
\* the variances.
calc_chi_squared_nu(numerators, denominator, variances_iter, n_params) ==
    LET weights == Weights(variances_iter) IN
    [num |-> SumSeq([i \in 1..Len(numerators) |->
                        weights[i] * Square(numerators[i])]),
     den |-> CommonMultiple(variances_iter) * Square(denominator)
                 * (Len(numerators) - n_params)]

\* The body of the while loop for sigma_sys = s: the reduced chi-squared of
\* the residuals about their weighted mean.
ChiSquaredNuAt(b, s) ==
    LET variances_iter == VariancesIter(b.errs, s)
        wmean == Average(b.residuals, Weights(variances_iter))
    IN  calc_chi_squared_nu(
            [i \in 1..Len(b.residuals) |->
                b.residuals[i] * wmean.den - wmean.num],
            wmean.den, variances_iter, num_params)

\* The bins drawn: the residuals in increasing order, the errors 1 for the
\* first points and MaxErr for the others.
Bins ==
    UNION {{[residuals |-> r,
             errs |-> [i \in 1..n |-> IF i <= j THEN 1 ELSE MaxErr]] :
               r \in SortedSeqs((-MaxResidual)..MaxResidual, n), j \in 0..n}
           : n \in (min_bin_size - 1)..MaxBinSize}

\* sigma_sys = -sigma_sys_delta, and the same without the minus sign
FirstSigmaSysNoMinus == sigma_sys_delta
FirstSigmaSys == -sigma_sys_delta

\* One bin of `for bin_lims in pairwise(bin_dict[name])`, up to the while
\* loop.  The bins share no state: a behaviour is one bin.
StartBin ==
    /\ wstate = "bin"
    /\ IF Len(bin.residuals) < min_bin_size
       THEN /\ sigma_sys_list' = Append(sigma_sys_list, [kind |-> "nan"])
            /\ wstate' = "done"
            /\ UNCHANGED <<sigma_sys, chi_squared_nu>>
       ELSE /\ sigma_sys' = FirstSigmaSys
            /\ chi_squared_nu' = Infinity
            /\ wstate' = "while"
            /\ UNCHANGED sigma_sys_list
    /\ UNCHANGED <<bin, varsT, varsA, varsO, varsM, varsC>>

\* while chi_squared_nu > 1.0: one pass of the body.
WalkStep ==
    /\ wstate = "while"
    /\ GreaterThanOne(chi_squared_nu)
    /\ sigma_sys < MaxSigmaSys
    /\ sigma_sys' = sigma_sys + sigma_sys_delta
    /\ chi_squared_nu' = ChiSquaredNuAt(bin, sigma_sys + sigma_sys_delta)
    /\ UNCHANGED <<bin, sigma_sys_list, wstate, varsT, varsA, varsO, varsM,
                   varsC>>

\* The loop ends: sigma_sys_list.append(sigma_sys).
WalkEnd ==
    /\ wstate = "while"
    /\ ~GreaterThanOne(chi_squared_nu)
    /\ sigma_sys_list' = Append(sigma_sys_list,
                                [kind |-> "value", sigma_sys |-> sigma_sys])
    /\ wstate' = "done"
    /\ UNCHANGED <<bin, sigma_sys, chi_squared_nu, varsT, varsA, varsO, varsM,
                   varsC>>

NextW ==
    \/ StartBin
    \/ WalkStep
    \/ WalkEnd

InitWalk ==
    /\ transitions = <<>>
    /\ pairs = <<>>
    /\ tcall = [op |-> "none", err |-> "", args |-> NoArgs]
    /\ fits_dict = [t \in 1..NumFitTransitions |-> "absent"]
    /\ pair_pos = 0
    /\ separations_list = <<>>
    /\ column_names = <<>>
    /\ pairs_dict = {}
    /\ master_star_list = <<>>
    /\ script = "files"
    /\ astep = [branch |-> "none", pair |-> 0]
    /\ header = CHOOSE h \in Headers : TRUE
    /\ hdus = [h \in HDUNames |-> None]
    /\ blaze_on_disk = TRUE
    /\ obj = NoObject
    /\ ocall = [op |-> "none"]
    /\ mcall = [op |-> "none"]
    /\ air_pos = 0
    /\ iterations = 0
    /\ within_tolerance = FALSE
    /\ vacuum_wavelengths_list = 0
    /\ cstate = "for"
    /\ bin \in Bins
    /\ sigma_sys = 0
    /\ chi_squared_nu = [num |-> 0, den |-> 1]
    /\ sigma_sys_list = <<>>
    /\ wstate = "bin"

\* The sigma_sys loop on one bin.
SpecWalk == InitWalk /\ [][NextW]_vars

(***************************************************************************)
(* TransitionPair.velocitySeparation, with the transitions it is derived   *)
(* from and their wavenumber setter.                                       *)
(*                                                                         *)
(* A velocity is kept as the quotient [num, den] of the speed of light     *)
(* u.c, den > 0.  A pair has the attribute _velocitySeparation once the    *)
(* property has been read: the record of the pair then has that field.     *)
(***************************************************************************)
\* wavelength2velocity on two lengths (unyt takes account of their units):
\* (wavelength2 - wavelength1) * u.c / ((wavelength1 + wavelength2) / 2)
wavelength2velocity(wavelength1, wavelength2) ==
    [num |-> 2 * (wavelength2.len - wavelength1.len),
     den |-> wavelength1.len + wavelength2.len]

\* hasattr(self, '_velocitySeparation')
HasVelocitySeparation(self) == "_velocitySeparation" \in DOMAIN self

\* The property velocitySeparation: the pair afterwards, and the value.
velocitySeparation(self) ==
    LET value == IF ~HasVelocitySeparation(self)
                 THEN wavelength2velocity(
                          transitions[self.higherEnergyTransition].wavelength,
                          transitions[self.lowerEnergyTransition].wavelength)
                 ELSE self._velocitySeparation
    IN  [self |-> [lowerEnergyTransition |-> self.lowerEnergyTransition,
                   higherEnergyTransition |-> self.higherEnergyTransition,
                   _velocitySeparation |-> value],
         value |-> value]

VelocitySeparation(p) ==
    /\ p \in 1..Len(pairs)
    /\ LET r == velocitySeparation(pairs[p]) IN
       /\ pairs' = [pairs EXCEPT ![p] = r.self]
       /\ tcall' = [op |-> "velocitySeparation", err |-> "", args |-> <<p>>,
                    value |-> r.value]
    /\ UNCHANGED <<transitions, varsA, varsO, varsM, varsC, varsW>>

\* Wavenumbers the setter accepts, of positive wavelength.
SeparationWavenumbers ==
    {k \in WavenumberArgs : k.val > 0 /\ SetterWavelength(k).err = ""}

NextS ==
    \/ \E w \in ComparedWavelengths : NewTransition(w, Int_(26), Int_(2))
    \/ \E t \in 1..MaxTransitions, k \in SeparationWavenumbers :
           SetWavenumber(t, k)
    \/ \E t1, t2 \in 1..MaxTransitions : NewTransitionPair(t1, t2)
    \/ \E p \in 1..MaxPairs : VelocitySeparation(p)

\* Transitions of valid arguments, a pair of them, and its separation.
SpecSeparation == InitTransition /\ [][NextS]_vars

(***************************************************************************)
(* The claims.                                                             *)
(***************************************************************************)
PhysicalLength(t) == transitions[t].wavelength.len

\* C1: TransitionPair(t1, t2) succeeds only when the two transitions have
\* different wavelengths; with equal wavelengths it raises
\* SameWavelengthsError and makes no pair, in either argument order.
\* (Stated for transitions of positive wavelength, the physical ones.)
C1_PairMembersDistinct ==
    (/\ tcall.op = "TransitionPair"
     /\ PhysicalLength(tcall.args[1]) > 0
     /\ PhysicalLength(tcall.args[2]) > 0) =>
        LET t1 == tcall.args[1]
            t2 == tcall.args[2]
        IN  /\ (tcall.err = "") <=> (PhysicalLength(t1) # PhysicalLength(t2))
            /\ tcall.err # "" =>
                   tcall.err = "SameWavelengthsError" /\ tcall.made = 0

IsRoman(s) == InInv(roman_numerals, s)
AdmittedIonization(i) ==
    i.type = "int" \/ (i.type = "str" /\ (IntParses(i.s) \/ IsRoman(i.s)))

\* C2: every Transition the constructor returns has ionizationState >= 1,
\* given as an int, a numeric string or a Roman numeral; any other value is
\* rejected with an error.
C2_IonizationStateAtLeastOne ==
    /\ \A t \in 1..Len(transitions) : transitions[t].ionizationState >= 1
    /\ (tcall.op = "Transition" /\ ~AdmittedIonization(tcall.args[3]))
           => tcall.err # ""

\* C3: every Transition has a strictly positive wavelength, after
\* construction and after any assignments to wavenumber.
C3_WavelengthPositive ==
    \A t \in 1..Len(transitions) : PhysicalLength(t) > 0

\* C4: in the pair loop a NaN meanErrVel skips only that pair: 'NaN' and
\* ' NaN' are appended to the row, the pair is not added to pairs_dict, and
\* the loop goes on with the next pair; the script does not end.
C4_NaNSkipsOnlyThatPair ==
    astep.branch = "nan" =>
        /\ script = "pairs"
        /\ pair_pos = astep.pair + 1
        /\ Len(separations_list) = 2 + 2 * astep.pair
        /\ separations_list[Len(separations_list) - 1] = "NaN"
        /\ separations_list[Len(separations_list)] = " NaN"
        /\ pairs_list[astep.pair] \notin pairs_dict

\* The pixel index nearest the centre of the CCD decides between two
\* orders: twice the distance of index i from (NumPixels - 1) / 2.
OffCentre(i) == Abs(2 * i - (NumPixels - 1))
RowOf(a, order) == a.data[order + 1]
MidMost(self, wavelength, order1, order2) ==
    LET index1 == wavelength2index(wavelength,
                                   RowOf(self._barycentricArray, order1))
        index2 == wavelength2index(wavelength,
                                   RowOf(self._barycentricArray, order2))
    IN  IF index1.err # "" \/ index2.err # "" THEN {order1, order2}
        ELSE IF OffCentre(index1.index) < OffCentre(index2.index) THEN {order1}
        ELSE IF OffCentre(index2.index) < OffCentre(index1.index) THEN {order2}
        ELSE {order1, order2}

\* C6: with closest_only, findWavelength returns one order index in
\* [0, NumOrders - 1]: the only order holding the wavelength, or, of the two
\* orders holding it, the one where its pixel index is nearest the centre.
C6_ClosestOnlyGivesMidMostOrder ==
    (/\ ocall.op = "findWavelength"
     /\ ocall.closest_only
     /\ WithinArrayLimits(obj, ocall.wavelength)
     /\ Len(orders_wavelength_found_in(obj, ocall.wavelength)) \in {1, 2})
    => LET found == orders_wavelength_found_in(obj, ocall.wavelength) IN
       /\ ocall.err = ""
       /\ Len(ocall.value) = 1
       /\ ocall.value[1] \in Orders
       /\ IF Len(found) = 1 THEN ocall.value[1] = found[1]
          ELSE ocall.value[1]
                   \in MidMost(obj, ocall.wavelength, found[1], found[2])

\* C7: with closest_only = False, a wavelength within the array limits
\* gives a tuple of 1 or 2 order indices in [0, NumOrders - 1], each an
\* order whose first and last wavelengths bracket it; a wavelength outside
\* the limits fails the assertion.
C7_TupleOfOneOrTwoOrders ==
    (ocall.op = "findWavelength" /\ ~ocall.closest_only) =>
        IF WithinArrayLimits(obj, ocall.wavelength)
        THEN /\ ocall.err = ""
             /\ Len(ocall.value) \in {1, 2}
             /\ \A k \in 1..Len(ocall.value) :
                   /\ ocall.value[k] \in Orders
                   /\ At(obj._wavelengthArray, ocall.value[k], 0)
                          <= ocall.wavelength
                   /\ ocall.wavelength
                          <= Last(obj._wavelengthArray, ocall.value[k])
        ELSE ocall.err = "AssertionError: not within array limits"

\* C8: after every successful construction the wavelength, photon-flux and
\* error arrays are populated with the shape of the raw data, and the file
\* holds the WAVE, FLUX and ERR HDUs.
C8_ArraysPopulated ==
    obj # NoObject =>
        /\ \A a \in {"_wavelengthArray", "_photonFluxArray", "_errorArray"} :
              obj[a] # None /\ obj[a].shape = obj._rawFluxArray.shape
        /\ obj._rawFluxArray.shape = <<NumOrders, NumPixels>>
        /\ Present(hdus) = HDUNames

\* C8's case: a file opened again with update=True, after its first open.
C8_Witness ==
    /\ ocall.op = "__init__"
    /\ ocall.update
    /\ ocall.err = ""
    /\ obj # NoObject
    /\ ocall.wrote = HDUNames

\* C9 as stated: update=True on a file lacking one of the HDUs raises
\* RuntimeError(err_str), and creates no HDU.
C9_UpdateRaisesErrStr ==
    (ocall.op = "__init__" /\ ocall.update /\ ocall.before # HDUNames) =>
        /\ ocall.err = err_str
        /\ Present(hdus) = ocall.before

\* C9, amended: update=True on a file lacking one of the HDUs raises
\* RuntimeError: with err_str when the blaze file is found, and
\* getBlazeFile's "Blaze file path doesn't exist!" when it is not; either
\* way no missing HDU is created.
C9_UpdateRaisesRuntimeError ==
    (ocall.op = "__init__" /\ ocall.update /\ ocall.before # HDUNames) =>
        /\ ocall.err = IF blaze_on_disk THEN err_str ELSE blaze_err
        /\ Present(hdus) = ocall.before
        /\ obj = NoObject

\* C9's case: update=True on a file that holds WAVE alone.
C9_Witness ==
    /\ ocall.op = "__init__"
    /\ ocall.update
    /\ ocall.before = {"WAVE"}
    /\ ocall.err = err_str

\* C10: with update=False and the three HDUs in the file, the constructor
\* only reads them: it writes no HDU, computes no array, does not look for
\* the blaze file, and leaves the file as it was.
C10_ReopenOnlyReads ==
    [][(/\ ocall'.op = "__init__"
        /\ ~ocall'.update
        /\ Present(hdus) = HDUNames)
       => (/\ ocall'.err = ""
           /\ hdus' = hdus
           /\ ocall'.wrote = {}
           /\ ocall'.computed = {}
           /\ ocall'.blaze_lookups = 0
           /\ \A h \in HDUNames : obj'[Attribute(h)] = hdus[h])]_vars

\* C10's case: a second open, update=False, of a file holding the arrays.
C10_Witness ==
    /\ ocall.op = "__init__"
    /\ ~ocall.update
    /\ ocall.before = HDUNames
    /\ ocall.err = ""
    /\ obj # NoObject

\* Position i of date_list (from 0) holds the closest timestamp before the
\* date: the largest i with date_list[i] <= date.
IsFloorIndex(date_list, date, i) ==
    /\ i \in 0..(Len(date_list) - 1)
    /\ date_list[i + 1] <= date
    /\ \A j \in (i + 1)..(Len(date_list) - 1) : date_list[j + 1] > date

DateToFind(given_date) ==
    IF given_date.type = "date" THEN Midnight(given_date.t) ELSE given_date.t

\* C11: for a date strictly between the first and the last entry of a
\* chronologically sorted date_list, date2index returns the index of the
\* closest timestamp before the date (the largest i with date_list[i] <=
\* date), not the index of a later timestamp.
C11_Date2IndexIsFloor ==
    (/\ mcall.op = "date2index"
     /\ mcall.given_date.type \in {"datetime", "date"}
     /\ mcall.date_list # <<>>
     /\ mcall.date_list[1] < DateToFind(mcall.given_date)
     /\ DateToFind(mcall.given_date)
            < mcall.date_list[Len(mcall.date_list)])
    => /\ mcall.result.err = ""
       /\ mcall.result.returns = "int"
       /\ IsFloorIndex(mcall.date_list, DateToFind(mcall.given_date),
                       mcall.result.index)

\* C12: date2index returns None when every date of date_list is after the
\* given date and when every date of date_list is before it; a
\* datetime.date counts as midnight of its day; an argument that is no
\* date raises RuntimeError.
C12_Date2IndexNoneOutside ==
    mcall.op = "date2index" =>
        LET d == mcall.given_date
            l == mcall.date_list
        IN  /\ d.type \notin {"datetime", "date"}
                   => mcall.result.err = "RuntimeError"
            /\ d.type = "date"
                   => mcall.result
                          = date2index([type |-> "datetime",
                                        t |-> Midnight(d.t)], l)
            /\ (/\ d.type \in {"datetime", "date"}
                /\ l # <<>>
                /\ \/ \A i \in 1..Len(l) : l[i] > DateToFind(d)
                   \/ \A i \in 1..Len(l) : l[i] < DateToFind(d))
                   => mcall.result.err = "" /\ mcall.result.returns = "None"

WithinLimits(w, a) == a[1] < w /\ w < a[Len(a)]
Distance(w, a, i) == Abs(a[i + 1] - w)

AdmittedElement(e) ==
    \/ e.type = "int" /\ e.n \in 1..118
    \/ e.type = "str" /\ IntParses(e.s) /\ IntOfStr(e.s) \in 1..118
    \/ e.type = "str" /\ ~IntParses(e.s) /\ InInv(elements, Capitalize(e.s))

\* C15: every Transition the constructor returns has both atomicNumber and
\* atomicSymbol, corresponding under the elements dictionary; an admitted
\* element argument is accepted, and any other is rejected with an error.
C15_ElementSetsNumberAndSymbol ==
    /\ \A t \in 1..Len(transitions) :
          /\ transitions[t].atomicSymbol # Unset
          /\ transitions[t].atomicNumber \in 1..Len(elements)
          /\ elements[transitions[t].atomicNumber]
                 = transitions[t].atomicSymbol
    /\ (/\ tcall.op = "Transition"
        /\ InitWavelength(tcall.args[1]).err = ""
        /\ InitIonizationState(tcall.args[3]).err = "")
       => (tcall.err = "" <=> AdmittedElement(tcall.args[2]))

\* C16: a Transition's wavelength is held in nm, whatever unit the
\* constructor was given and after any assignments to wavenumber, so that
\* __lt__ and __gt__ order transitions by physical wavelength.
C16_WavelengthHeldInNm ==
    /\ \A t \in 1..Len(transitions) : transitions[t].wavelength.unit = "nm"
    /\ \A a, b \in 1..Len(transitions) :
          /\ TransitionLt(transitions[a], transitions[b])
                 <=> PhysicalLength(a) < PhysicalLength(b)
          /\ TransitionGt(transitions[a], transitions[b])
                 <=> PhysicalLength(a) > PhysicalLength(b)

\* (higher, lower) of pair p precedes that of pair q, by wavelength.
PrecedesByWavelength(p, q) ==
    LET ph == PhysicalLength(pairs[p].higherEnergyTransition)
        pl == PhysicalLength(pairs[p].lowerEnergyTransition)
        qh == PhysicalLength(pairs[q].higherEnergyTransition)
        ql == PhysicalLength(pairs[q].lowerEnergyTransition)
    IN  ph < qh \/ (ph = qh /\ pl < ql)

SameWavelengths(p, q) ==
    /\ PhysicalLength(pairs[p].higherEnergyTransition)
           = PhysicalLength(pairs[q].higherEnergyTransition)
    /\ PhysicalLength(pairs[p].lowerEnergyTransition)
           = PhysicalLength(pairs[q].lowerEnergyTransition)

\* C17: TransitionPair comparison orders pairs by the higher-energy
\* transition, then by the lower-energy one, as a strict total order:
\* exactly one of p == q, p < q, p > q holds, p < q iff (p.higher, p.lower)
\* precedes (q.higher, q.lower) by wavelength, and pairs of transitions of
\* equal wavelengths compare equal.
C17_PairComparisonTotalOrder ==
    mcall.op = "compare" =>
        LET p == mcall.self
            q == mcall.other
        IN  /\ \/ mcall.eq /\ ~mcall.lt /\ ~mcall.gt
               \/ ~mcall.eq /\ mcall.lt /\ ~mcall.gt
               \/ ~mcall.eq /\ ~mcall.lt /\ mcall.gt
            /\ mcall.lt <=> PrecedesByWavelength(p, q)
            /\ mcall.gt <=> PrecedesByWavelength(q, p)
            /\ SameWavelengths(p, q) => mcall.eq

\* C18: the CSV row never gets out of sync with the header: once the loop
\* body has dealt with a pair -- measured, missing ('N/A') or skipped
\* ('NaN') -- separations_list is as long as column_names; every
\* observation's row has 2 + 2 * len(pairs_list) entries; and the assertion
\* before the CSV file is written holds.
C18_RowInSyncWithHeader ==
    /\ astep.branch \in {"missing", "nan", "measured"}
           => Len(separations_list) = Len(column_names)
    /\ astep.branch = "end"
           => /\ Len(separations_list) = 2 + 2 * Len(pairs_list)
              /\ Len(column_names) = 2 + 2 * Len(pairs_list)
    /\ \A r \in 1..Len(master_star_list) :
           Len(master_star_list[r]) = 2 + 2 * Len(pairs_list)
    /\ script # "AssertionError"

\* The sum over i in 0..k of header['ESO DRS CAL TH COEFF LL<4*o+i>'] * p**i.
RECURSIVE PolynomialSum(_, _, _)
PolynomialSum(o, p, k) ==
    header.coeff[4 * o + k] * Power(p, k)
        + (IF k = 0 THEN 0 ELSE PolynomialSum(o, p, k - 1))

\* C19: the wavelength array is built from the polynomial coefficients of
\* the header: for every order o and pixel p, wavelength_array[o, p] is the
\* sum over i in 0..3 of header['ESO DRS CAL TH COEFF LL<4*o+i>'] * p**i, and
\* the array has the shape of the raw flux array.
C19_WavelengthArrayFromCoefficients ==
    obj # NoObject =>
        /\ obj._wavelengthArray.shape = obj._rawFluxArray.shape
        /\ \A o \in Orders, p \in Pixels :
              At(obj._wavelengthArray, o, p) = PolynomialSum(o, p, 3)

\* C19's case: a construction that ran getWavelengthArray, on a header
\* whose polynomials have terms of every degree.
C19_Witness ==
    /\ ocall.op = "__init__"
    /\ ocall.err = ""
    /\ "WAVE" \in ocall.computed
    /\ obj # NoObject
    /\ \A i \in 1..3 : header.coeff[4 + i] # 0

\* C20: the root-finding loop of air2vacESO always terminates: for each
\* wavelength the while loop stops when two successive iterates are within
\* the tolerance, or RuntimeError is raised once the iteration count exceeds
\* num_iter; no wavelength takes more than num_iter + 1 iterations, and the
\* call ends, returning or raising.
C20_Air2VacTerminates ==
    /\ [](/\ iterations <= num_iter + 1
          /\ cstate = "RuntimeError" => iterations = num_iter + 1
          /\ cstate = "done" => vacuum_wavelengths_list = mcall.len)
    /\ <>(cstate \in {"done", "RuntimeError"})

\* C20's case: one wavelength has converged and the next one runs out of
\* iterations.
C20_Witness ==
    /\ cstate = "RuntimeError"
    /\ iterations = num_iter + 1
    /\ vacuum_wavelengths_list >= 1

\* C21: for a bin of at least min_bin_size points with positive errors the
\* walk terminates -- every pass raises sigma_sys by one step and the walk
\* never comes to MaxSigmaSys steps -- and the sigma_sys recorded is the
\* smallest k (in units of sigma_sys_delta, from 0) for which the reduced
\* chi-squared of the residuals about their weighted mean, with variances
\* errs**2 + sigma_sys**2, is <= 1.0.
C21_SigmaSysWalk ==
    /\ (wstate = "while" /\ GreaterThanOne(chi_squared_nu))
           => sigma_sys < MaxSigmaSys
    /\ (wstate = "done" /\ Len(bin.residuals) >= min_bin_size)
           => /\ Len(sigma_sys_list) = 1
              /\ sigma_sys_list[1].kind = "value"
              /\ LET k == sigma_sys_list[1].sigma_sys IN
                 /\ k >= 0
                 /\ ~GreaterThanOne(ChiSquaredNuAt(bin, k))
                 /\ \A j \in 0..(k - 1) :
                       GreaterThanOne(ChiSquaredNuAt(bin, j))

\* C21's case: a bin whose errors differ and whose walk took more than one
\* step beyond sigma_sys = 0.
C21_Witness ==
    /\ wstate = "done"
    /\ Len(bin.residuals) >= min_bin_size
    /\ \E i, j \in 1..Len(bin.errs) : bin.errs[i] # bin.errs[j]
    /\ sigma_sys_list[1].kind = "value"
    /\ sigma_sys_list[1].sigma_sys >= 2

\* wavelength2velocity on the current wavelengths of the transitions of
\* pair p, higher-energy transition first.
CurrentSeparation(p) ==
    wavelength2velocity(
        transitions[pairs[p].higherEnergyTransition].wavelength,
        transitions[pairs[p].lowerEnergyTransition].wavelength)

\* C22: whenever it is read, a pair's velocitySeparation equals
\* wavelength2velocity(higher-energy wavelength, lower-energy wavelength) on
\* the transitions' current wavelengths, also after a wavelength was changed
\* through the wavenumber setter, and it is strictly positive.
C22_VelocitySeparationCurrent ==
    tcall.op = "velocitySeparation" =>
        LET now == CurrentSeparation(tcall.args[1]) IN
        /\ tcall.value.num * now.den = now.num * tcall.value.den
        /\ tcall.value.num > 0
=============================================================================
